---- MODULE Spec2Model ----
(***************************************************************************)
(* A model of the volatile-mem crate: the Volatile<T, P> accessor, its     *)
(* permission markers, the single-element read/write, the projection of    *)
(* Volatile<[T; N], P> into a slice of element accessors, and the bulk     *)
(* slice operations fill_volatile / write_slice_volatile /                 *)
(* read_slice_volatile.                                                    *)
(*                                                                         *)
(* Memory is an array of addressable units; a value of T occupies SizeT    *)
(* consecutive units (least significant unit first).  One array value      *)
(* [T; n] lives at address Base; the program holds at most one accessor    *)
(* reference to it at a time.  Every operation records, in `last`, the     *)
(* volatile accesses it issued, in the order it issued them.               *)
(***************************************************************************)
EXTENDS Integers, Sequences, FiniteSets, TLC

\* Largest array length N of the accessed [T; N].
MaxN == 2
\* sizeof(T), in addressable units.
SizeT == 2

----------------------------------------------------------------------------
(* Values and memory *)

\* What one addressable unit of memory can hold.
Unit == {0, 1}

RECURSIVE Pow2(_)
Pow2(k) == IF k = 0 THEN 1 ELSE 2 * Pow2(k - 1)

\* The address of the array value: non-null and aligned for T.
Base == SizeT

\* One element of room before the array and one after the largest array.
MemUnits == Base + (MaxN + 1) * SizeT

Addrs == 0 .. (MemUnits - 1)

\* Unit k of the representation of val.
UnitOf(val, k) == (val \div Pow2(k)) % 2

\* A mutant of write_volatile: only the lowest unit of val is stored.
write_volatile_low(m, addr, val) ==
    [a \in Addrs |-> IF a = addr THEN UnitOf(val, 0) ELSE m[a]]

\* ptr.write_volatile(val): one store of the SizeT units of val at addr.
write_volatile(m, addr, val) ==
    [a \in Addrs |->
        IF addr <= a /\ a < addr + SizeT THEN UnitOf(val, a - addr) ELSE m[a]]

RECURSIVE LoadUnits(_, _, _)
LoadUnits(m, addr, k) ==
    IF k = SizeT THEN 0
    ELSE (IF addr + k \in Addrs THEN m[addr + k] ELSE 0) * Pow2(k)
         + LoadUnits(m, addr, k + 1)

\* ptr.read_volatile(): one load of the SizeT units at addr, as a value of T.
read_volatile(m, addr) == LoadUnits(m, addr, 0)

----------------------------------------------------------------------------
(* Permission markers and capability traits *)

ReadWrite == "ReadWrite"
ReadOnly  == "ReadOnly"
WriteOnly == "WriteOnly"

Markers == {ReadWrite, ReadOnly, WriteOnly}

\* A mutant of Read: the read capability also granted to WriteOnly.
ReadAll == {ReadWrite, ReadOnly, WriteOnly}

\* trait Read: the markers that implement it.
Read == {ReadWrite, ReadOnly}

\* trait Write: the markers that implement it.
Write == {ReadWrite, WriteOnly}

----------------------------------------------------------------------------
(* State *)

VARIABLES
    mem,    \* the memory: Addrs -> Unit
    n,      \* the N of the array value [T; N] at Base
    alive,  \* whether the array value's lifetime has not ended
    acc,    \* the accessor reference the program holds, or NoAcc
    last    \* the most recent operation and the accesses it issued

vars == <<mem, n, alive, acc, last>>

NoAcc == [kind |-> "none"]

\* A reference to Volatile<[T; N], P>: the address it points at, N, the marker
\* P, whether it is a `&mut`, and whether the borrow checker ties its lifetime
\* to the reference it was made from.
Accessor(addr, len, perm, mutable, bound) ==
    [kind |-> "ref", addr |-> addr, len |-> len, perm |-> perm,
     mutable |-> mutable, bound |-> bound]

\* The outcome of an operation that has not run.
NoOp(kind) ==
    [kind |-> kind, idx |-> 0, arg |-> <<>>, dstOut |-> <<>>, result |-> <<>>,
     trace |-> <<>>, panicked |-> FALSE, valid |-> alive, perm |-> "none",
     after |-> <<>>]

Init ==
    /\ mem = [a \in Addrs |-> 0]
    /\ n \in 0 .. MaxN
    /\ alive = TRUE
    /\ acc = NoAcc
    /\ last = NoOp("init")

----------------------------------------------------------------------------
(* Array projection *)

\* Deref for Volatile<[T; N], P>: slice::from_raw_parts(ptr, N) over elements
\* of type Volatile<T, P>, which are as large as T.  A Rust slice s of length
\* N is the sequence whose element i (from 0) is s[i + 1].
deref(a) ==
    [k \in 1 .. a.len |-> [addr |-> a.addr + (k - 1) * SizeT, perm |-> a.perm]]

\* A mutant of deref_mut: the elements are taken one unit apart, not sizeof(T).
deref_mut_stride1(a) ==
    [k \in 1 .. a.len |-> [addr |-> a.addr + (k - 1), perm |-> a.perm]]

\* DerefMut for Volatile<[T; N], P>: slice::from_raw_parts_mut(ptr, N).
deref_mut(a) ==
    [k \in 1 .. a.len |-> [addr |-> a.addr + (k - 1) * SizeT, perm |-> a.perm]]

\* AsRef<[Volatile<T, P>]> and Borrow<[Volatile<T, P>]>: `self`, by deref.
as_ref(a) == deref(a)

\* AsMut<[Volatile<T, P>]> and BorrowMut<[Volatile<T, P>]>: `self`, by
\* deref_mut.
as_mut(a) == deref_mut(a)

\* s[i] for a Rust slice s and an index i counted from 0.
Idx(s, i) == s[i + 1]

----------------------------------------------------------------------------
(* Single-element operations *)

\* One volatile access, as the memory sees it: the kind, the address, the
\* value moved, and the marker of the element accessor that issued it.
Access(op, elem, val) ==
    [op |-> op, addr |-> elem.addr, val |-> val, perm |-> elem.perm]

\* The state an operation works on: the memory, the accesses issued so far,
\* the value returned, the caller's destination slice, and whether it
\* panicked.
Start(m, dst) ==
    [mem |-> m, trace |-> <<>>, ret |-> <<>>, dst |-> dst, panicked |-> FALSE]

\* A mutant of elem_read: the value is moved out, leaving the memory zeroed.
elem_read_clearing(st, elem) ==
    LET v == read_volatile(st.mem, elem.addr)
    IN  [st EXCEPT !.mem = write_volatile(@, elem.addr, 0),
                   !.trace = Append(@, Access("load", elem, v)),
                   !.ret = <<v>>]

\* <Volatile<T, P> as VolatileRead<T>>::read
elem_read(st, elem) ==
    LET v == read_volatile(st.mem, elem.addr)
    IN  [st EXCEPT !.trace = Append(@, Access("load", elem, v)),
                   !.ret = <<v>>]

\* A mutant of elem_write: the old value is loaded before the store.
elem_write_rmw(st, elem, val) ==
    LET old == read_volatile(st.mem, elem.addr)
    IN  [st EXCEPT !.mem = write_volatile(@, elem.addr, val),
                   !.trace = @ \o <<Access("load", elem, old),
                                    Access("store", elem, val)>>]

\* <Volatile<T, P> as VolatileWrite<T>>::write
elem_write(st, elem, val) ==
    [st EXCEPT !.mem = write_volatile(@, elem.addr, val),
               !.trace = Append(@, Access("store", elem, val))]

----------------------------------------------------------------------------
(* Bulk slice operations *)

\* A mutant of fill_loop: the last element is left out.
RECURSIVE fill_loop_short(_, _, _, _)
fill_loop_short(st, this, val, i) ==
    IF i >= Len(this) - 1 THEN st
    ELSE fill_loop_short(elem_write(st, Idx(this, i), val), this, val, i + 1)

\* for elem in this.iter_mut() { elem.write(val); }
RECURSIVE fill_loop(_, _, _, _)
fill_loop(st, this, val, i) ==
    IF i >= Len(this) THEN st
    ELSE fill_loop(elem_write(st, Idx(this, i), val), this, val, i + 1)

\* VolatileWriteSlice::fill_volatile
fill_volatile_body(st, a, val) == fill_loop(st, as_mut(a), val, 0)

\* A mutant of write_slice_loop: the elements are written last to first.
RECURSIVE write_slice_loop_desc(_, _, _, _)
write_slice_loop_desc(st, this, src, i) ==
    IF i >= Len(this) THEN st
    ELSE LET j == Len(this) - 1 - i
         IN  write_slice_loop_desc(elem_write(st, Idx(this, j), Idx(src, j)),
                                   this, src, i + 1)

\* for i in 0..this.len() { this[i].write(src[i]); }
RECURSIVE write_slice_loop(_, _, _, _)
write_slice_loop(st, this, src, i) ==
    IF i >= Len(this) THEN st
    ELSE write_slice_loop(elem_write(st, Idx(this, i), Idx(src, i)),
                          this, src, i + 1)

\* A mutant of write_slice_volatile_body: no length assertion, the shorter of
\* the two lengths is written.
write_slice_volatile_truncating(st, a, src) ==
    LET this == as_mut(a)
        len  == IF Len(this) < Len(src) THEN Len(this) ELSE Len(src)
    IN  write_slice_loop(st, SubSeq(this, 1, len), src, 0)

\* VolatileWriteSlice::write_slice_volatile
write_slice_volatile_body(st, a, src) ==
    LET this == as_mut(a)
    IN  IF Len(this) # Len(src) THEN [st EXCEPT !.panicked = TRUE]
        ELSE write_slice_loop(st, this, src, 0)

\* A mutant of read_slice_loop: every dst[i] is read from the first element.
RECURSIVE read_slice_loop_first(_, _, _)
read_slice_loop_first(st, this, i) ==
    IF i >= Len(this) THEN st
    ELSE LET r == elem_read(st, Idx(this, 0))
         IN  read_slice_loop_first([r EXCEPT !.dst[i + 1] = r.ret[1]],
                                   this, i + 1)

\* for i in 0..this.len() { dst[i] = this[i].read(); }
RECURSIVE read_slice_loop(_, _, _)
read_slice_loop(st, this, i) ==
    IF i >= Len(this) THEN st
    ELSE LET r == elem_read(st, Idx(this, i))
         IN  read_slice_loop([r EXCEPT !.dst[i + 1] = r.ret[1]], this, i + 1)

\* VolatileReadSlice::read_slice_volatile
read_slice_volatile_body(st, a) ==
    LET this == as_ref(a)
    IN  IF Len(this) # Len(st.dst) THEN [st EXCEPT !.panicked = TRUE]
        ELSE [read_slice_loop(st, this, 0) EXCEPT !.ret = <<>>]

----------------------------------------------------------------------------
(* The operations a program performs *)

\* The values the program and the outside world store: none of the units
\* set, the lowest alone, the highest alone, all of them.
ValSeq == <<0, 1, Pow2(SizeT - 1), Pow2(SizeT) - 1>>

InVals == {ValSeq[j] : j \in 1 .. Len(ValSeq)}

\* The plain slices a caller passes as `src`: every length from empty to one
\* more than the largest array, running through ValSeq from any start.
SrcSlices ==
    {[j \in 1 .. k |-> ValSeq[((s + j - 2) % Len(ValSeq)) + 1]] :
        s \in 1 .. Len(ValSeq), k \in 0 .. (MaxN + 1)}

\* The plain slices a caller passes as `dst`: zeroed buffers of every length
\* from empty to one more than the largest array.
DstSlices == {[j \in 1 .. k |-> 0] : k \in 0 .. (MaxN + 1)}

\* The program takes a reference to the array value and makes an accessor
\* reference of marker P from it.
Construct(kind, P, mutable, bound) ==
    /\ alive
    /\ acc' = Accessor(Base, n, P, mutable, bound)
    /\ last' = [NoOp(kind) EXCEPT !.perm = P]
    /\ UNCHANGED <<mem, n, alive>>

\* Volatile::from_ref<'a>(mem: &T) -> &'a Self: 'a is not tied to `mem`.
from_ref(P) == Construct("from_ref", P, FALSE, FALSE)

\* Volatile::from_mut<'a>(mem: &mut T) -> &'a mut Self: 'a is not tied to `mem`.
from_mut(P) == Construct("from_mut", P, TRUE, FALSE)

\* <&'a Volatile<T, P> as From<&'a T>>::from
From_ref(P) == Construct("From_ref", P, FALSE, TRUE)

\* <&'a mut Volatile<T, P> as From<&'a mut T>>::from
From_mut(P) == Construct("From_mut", P, TRUE, TRUE)

\* The lifetime of the array value ends.  The borrow checker lets the program
\* keep only references whose lifetime is not tied to the value.  An access
\* through a reference kept past this point is undefined behaviour: the
\* volatile load or store is still issued at the old address, where it meets
\* whatever ExternalModify has put there since, so a dangling load can return
\* any value.
EndLifetime ==
    /\ alive
    /\ alive' = FALSE
    /\ acc' = IF acc.kind = "ref" /\ acc.bound THEN NoAcc ELSE acc
    /\ last' = [NoOp("end_lifetime") EXCEPT !.valid = FALSE]
    /\ UNCHANGED <<mem, n>>

\* Something outside the program (a device, or whoever reuses the memory once
\* the value is gone) stores a value into one element of the array's memory.
ExternalModify ==
    \E i \in 0 .. (n - 1), val \in InVals :
        /\ mem' = write_volatile(mem, Base + i * SizeT, val)
        /\ mem' # mem
        /\ last' = NoOp("external")
        /\ UNCHANGED <<n, alive, acc>>

\* What an operation leaves behind: the memory, and its record in `last`.
Finish(kind, st, i, arg, after) ==
    /\ mem' = st.mem
    /\ last' = [kind |-> kind, idx |-> i, arg |-> arg, dstOut |-> st.dst,
                result |-> st.ret, trace |-> st.trace,
                panicked |-> st.panicked, valid |-> alive, perm |-> acc.perm,
                after |-> after]
    /\ UNCHANGED <<n, alive, acc>>

\* What a read of element i follows directly: a write of that element, a read
\* of it, or neither.
ReadAfter(i) ==
    IF last.kind = "write" /\ last.idx = i THEN <<"write", last.arg>>
    ELSE IF last.kind = "read" /\ last.idx = i THEN <<"read", last.result>>
    ELSE <<>>

\* What a read_slice_volatile follows directly: a write_slice_volatile that
\* returned, or not.
ReadSliceAfter ==
    IF last.kind = "write_slice_volatile" /\ ~last.panicked
    THEN <<"write_slice_volatile", last.arg>>
    ELSE <<>>

\* acc[i].read(): available when P: Read.
read(i) ==
    /\ acc.kind = "ref"
    /\ acc.perm \in Read
    /\ i \in 0 .. (acc.len - 1)
    /\ Finish("read", elem_read(Start(mem, <<>>), Idx(deref(acc), i)),
              i, <<>>, ReadAfter(i))

\* acc[i].write(val): available on a `&mut` when P: Write.
write(i, val) ==
    /\ acc.kind = "ref"
    /\ acc.mutable
    /\ acc.perm \in Write
    /\ i \in 0 .. (acc.len - 1)
    /\ Finish("write",
              elem_write(Start(mem, <<>>), Idx(deref_mut(acc), i), val),
              i, <<val>>, <<>>)

\* acc.fill_volatile(val): available on a `&mut` when the elements are
\* VolatileWrite.
fill_volatile(val) ==
    /\ acc.kind = "ref"
    /\ acc.mutable
    /\ acc.perm \in Write
    /\ Finish("fill_volatile", fill_volatile_body(Start(mem, <<>>), acc, val),
              0, <<val>>, <<>>)

\* acc.write_slice_volatile(src): available on a `&mut` when the elements are
\* VolatileWrite.
write_slice_volatile(src) ==
    /\ acc.kind = "ref"
    /\ acc.mutable
    /\ acc.perm \in Write
    /\ Finish("write_slice_volatile",
              write_slice_volatile_body(Start(mem, <<>>), acc, src),
              0, src, <<>>)

\* acc.read_slice_volatile(dst): available when the elements are VolatileRead.
read_slice_volatile(dst) ==
    /\ acc.kind = "ref"
    /\ acc.perm \in Read
    /\ Finish("read_slice_volatile",
              read_slice_volatile_body(Start(mem, dst), acc),
              0, dst, ReadSliceAfter)

Next ==
    \/ \E P \in Markers : from_ref(P)
    \/ \E P \in Markers : from_mut(P)
    \/ \E P \in Markers : From_ref(P)
    \/ \E P \in Markers : From_mut(P)
    \/ EndLifetime
    \/ ExternalModify
    \/ \E i \in 0 .. (MaxN - 1) : read(i)
    \/ \E i \in 0 .. (MaxN - 1), val \in InVals : write(i, val)
    \/ \E val \in InVals : fill_volatile(val)
    \/ \E src \in SrcSlices : write_slice_volatile(src)
    \/ \E dst \in DstSlices : read_slice_volatile(dst)

Spec == Init /\ [][Next]_vars

----------------------------------------------------------------------------
(* Properties *)

\* The operations that go through the accessor.
AccessKinds ==
    {"read", "write", "fill_volatile", "write_slice_volatile",
     "read_slice_volatile"}

\* The address the array projection must give element i (from 0).
ElemAddr(i) == Base + i * SizeT

\* The value held by element i of the array's memory.
ElemVal(m, i) == read_volatile(m, ElemAddr(i))

Loads(t) == {k \in 1 .. Len(t) : t[k].op = "load"}

Stores(t) == {k \in 1 .. Len(t) : t[k].op = "store"}

\* C1: the read operations are available exactly when the accessor's marker
\* is ReadWrite or ReadOnly, the write operations (on a `&mut`) exactly when
\* it is ReadWrite or WriteOnly; every access an operation issues carries the
\* marker the accessor was constructed with, so no load is ever issued
\* through a WriteOnly accessor and no store through a ReadOnly one, the bulk
\* operations included.
C1_PermissionGating ==
    /\ \A k \in Loads(last.trace) :
           last.trace[k].perm \in {"ReadWrite", "ReadOnly"}
    /\ \A k \in Stores(last.trace) :
           last.trace[k].perm \in {"ReadWrite", "WriteOnly"}
    /\ last.kind \in AccessKinds =>
           /\ acc.kind = "ref" /\ last.perm = acc.perm
           /\ \A k \in 1 .. Len(last.trace) : last.trace[k].perm = acc.perm
    /\ acc.kind = "ref" =>
           /\ (ENABLED read_slice_volatile(<<>>))
                  <=> acc.perm \in {"ReadWrite", "ReadOnly"}
           /\ n > 0 =>
                  ((ENABLED read(0)) <=> acc.perm \in {"ReadWrite", "ReadOnly"})
    /\ acc.kind = "ref" /\ acc.mutable =>
           /\ (ENABLED fill_volatile(0))
                  <=> acc.perm \in {"ReadWrite", "WriteOnly"}
           /\ (ENABLED write_slice_volatile(<<>>))
                  <=> acc.perm \in {"ReadWrite", "WriteOnly"}
           /\ n > 0 =>
                  ((ENABLED write(0, 0))
                       <=> acc.perm \in {"ReadWrite", "WriteOnly"})

\* C1 witness: a WriteOnly accessor has filled the largest array, by stores
\* alone.
C1_Witness ==
    /\ last.kind = "fill_volatile"
    /\ acc.kind = "ref" /\ acc.perm = "WriteOnly"
    /\ n = MaxN
    /\ Cardinality(Stores(last.trace)) = MaxN

\* C2: on a ReadWrite accessor, write(v) directly followed by read() of the
\* same element returns v, whatever the memory held before.
C2_WriteReadRoundTrip ==
    (last.kind = "read" /\ last.after # <<>> /\ last.after[1] = "write")
        => last.result = last.after[2]

\* C2 witness: a read directly after a write of the all-units-set value
\* through a ReadWrite accessor has returned it.
C2_Witness ==
    /\ last.kind = "read"
    /\ last.perm = "ReadWrite"
    /\ last.after = <<"write", <<Pow2(SizeT) - 1>>>>
    /\ last.result = <<Pow2(SizeT) - 1>>

\* C3: write_slice_volatile and read_slice_volatile panic exactly when the
\* plain slice and the volatile slice differ in length, and a panicking call
\* has issued no access, left the destination slice as it was, and left the
\* memory unchanged.
C3_LengthMismatchAtomic ==
    /\ [](last.kind \in {"write_slice_volatile", "read_slice_volatile"} =>
            /\ last.panicked <=> Len(last.arg) # n
            /\ last.panicked => last.trace = <<>>
            /\ (last.panicked /\ last.kind = "read_slice_volatile")
                   => last.dstOut = last.arg)
    /\ [][last'.panicked => mem' = mem]_vars

\* C3 witness: read_slice_volatile into a destination one longer than the
\* largest array has panicked.
C3_Witness ==
    /\ last.kind = "read_slice_volatile"
    /\ last.panicked
    /\ n = MaxN
    /\ Len(last.arg) = MaxN + 1

\* C4: fill_volatile, write_slice_volatile and read_slice_volatile (lengths
\* equal) over N elements issue one access per element, the k-th access at
\* element k - 1, so in strictly ascending address order; the value stored
\* at element i is val (fill) or src[i] (write-from).
C4_AscendingOrder ==
    (last.kind \in {"fill_volatile", "write_slice_volatile",
                    "read_slice_volatile"} /\ ~last.panicked) =>
        /\ Len(last.trace) = n
        /\ \A k \in 1 .. Len(last.trace) :
               /\ last.trace[k].addr = ElemAddr(k - 1)
               /\ last.kind = "fill_volatile" =>
                      last.trace[k].val = last.arg[1]
               /\ last.kind = "write_slice_volatile" =>
                      last.trace[k].val = last.arg[k]
        /\ \A j, k \in 1 .. Len(last.trace) :
               j < k => last.trace[j].addr < last.trace[k].addr

\* C4 witness: write_slice_volatile has written a source of distinct values
\* over the largest array.
C4_Witness ==
    /\ last.kind = "write_slice_volatile"
    /\ ~last.panicked
    /\ Len(last.trace) = MaxN
    /\ last.arg[1] # last.arg[MaxN]

\* C5: write_slice_volatile(src) directly followed by read_slice_volatile(dst)
\* of the same length N leaves dst equal to src, element for element, and the
\* memory still holding src.
C5_BulkRoundTrip ==
    (/\ last.kind = "read_slice_volatile"
     /\ ~last.panicked
     /\ last.after # <<>>
     /\ last.after[1] = "write_slice_volatile") =>
        /\ last.dstOut = last.after[2]
        /\ Len(last.dstOut) = n
        /\ \A i \in 0 .. (n - 1) : ElemVal(mem, i) = last.after[2][i + 1]

\* C5 witness: a read_slice_volatile directly after a write_slice_volatile
\* over the largest array has changed the zeroed destination.
C5_Witness ==
    /\ last.kind = "read_slice_volatile"
    /\ ~last.panicked
    /\ last.perm = "ReadWrite"
    /\ last.after # <<>>
    /\ n = MaxN
    /\ \A k \in 1 .. MaxN : last.dstOut[k] # last.arg[k]

\* C6: after fill_volatile(val) every one of the N elements holds val; fill
\* never panics, and over an empty array it issues no access.
C6_FillPostcondition ==
    last.kind = "fill_volatile" =>
        /\ ~last.panicked
        /\ \A i \in 0 .. (n - 1) : ElemVal(mem, i) = last.arg[1]
        /\ n = 0 => last.trace = <<>>

\* C6 witness: fill_volatile has set the largest array to the all-units-set
\* value.
C6_Witness ==
    /\ last.kind = "fill_volatile"
    /\ n = MaxN
    /\ last.arg = <<Pow2(SizeT) - 1>>
    /\ last.perm = "ReadWrite"

\* C7: an accessor over [T; N] at address A projects into exactly N element
\* accessors, element i at A + i * sizeof(T) and carrying the accessor's
\* marker; an access through element i is issued at that address, and a
\* write through element i changes no unit outside element i, so every
\* other element keeps its value.
C7_ArrayProjection ==
    /\ [](acc.kind = "ref" =>
            \A proj \in {deref(acc), deref_mut(acc), as_ref(acc), as_mut(acc)} :
                /\ Len(proj) = n
                /\ \A i \in 0 .. (n - 1) :
                       /\ Idx(proj, i).addr = Base + i * SizeT
                       /\ Idx(proj, i).perm = acc.perm)
    /\ [](last.kind \in {"read", "write"} =>
            /\ Len(last.trace) = 1
            /\ last.trace[1].addr = Base + last.idx * SizeT
            /\ last.trace[1].perm = acc.perm)
    /\ [][last'.kind = "write" =>
            /\ \A a \in Addrs :
                   (a < Base + last'.idx * SizeT
                        \/ a >= Base + (last'.idx + 1) * SizeT)
                       => mem'[a] = mem[a]
            /\ \A j \in 0 .. (n - 1) :
                   j # last'.idx => ElemVal(mem', j) = ElemVal(mem, j)]_vars

\* C7 witness: the last element of the largest array has been written while
\* the first element holds another, non-zero value.
C7_Witness ==
    /\ last.kind = "write"
    /\ n = MaxN
    /\ last.idx = MaxN - 1
    /\ last.arg = <<1>>
    /\ ElemVal(mem, 0) = Pow2(SizeT) - 1
    /\ ElemVal(mem, MaxN - 1) = 1

\* C8: read and read_slice_volatile leave the memory unchanged (a
\* read_slice_volatile that returns changes only the destination slice, to
\* the memory's values), and a read directly after a read of the same
\* element returns the same value.
C8_ReadsDoNotMutate ==
    /\ [][last'.kind \in {"read", "read_slice_volatile"} => mem' = mem]_vars
    /\ []((last.kind = "read" /\ last.after # <<>> /\ last.after[1] = "read")
              => last.result = last.after[2])
    /\ []((last.kind = "read_slice_volatile" /\ ~last.panicked) =>
              \A i \in 0 .. (n - 1) : last.dstOut[i + 1] = ElemVal(mem, i))

\* C8 witness: a read directly after a read of the same element has returned
\* a non-zero value.
C8_Witness ==
    /\ last.kind = "read"
    /\ last.after # <<>>
    /\ last.after[1] = "read"
    /\ last.result = <<Pow2(SizeT) - 1>>

\* C9: no load or store is issued through an accessor made by from_ref,
\* from_mut or the From conversions after the lifetime of the value it was
\* made from has ended.
C9_SafeAccessWithinLifetime ==
    (last.kind \in AccessKinds /\ last.trace # <<>>) => last.valid

\* C10: read issues exactly one load and no store; write exactly one store
\* and no load; fill_volatile and write_slice_volatile over N elements
\* exactly N stores and no load; read_slice_volatile exactly N loads and no
\* store; a panicking call issues nothing.
C10_AccessCounts ==
    LET loads  == Cardinality(Loads(last.trace))
        stores == Cardinality(Stores(last.trace))
    IN  /\ last.kind = "read" => loads = 1 /\ stores = 0
        /\ last.kind = "write" => loads = 0 /\ stores = 1
        /\ (last.kind \in {"fill_volatile", "write_slice_volatile"}
                /\ ~last.panicked) => loads = 0 /\ stores = n
        /\ (last.kind = "read_slice_volatile" /\ ~last.panicked) =>
               loads = n /\ stores = 0
        /\ last.panicked => loads = 0 /\ stores = 0
        /\ loads + stores = Len(last.trace)

\* C10 witness: read_slice_volatile has read the largest array with one load
\* per element.
C10_Witness ==
    /\ last.kind = "read_slice_volatile"
    /\ ~last.panicked
    /\ n = MaxN
    /\ Cardinality(Loads(last.trace)) = MaxN
    /\ last.perm = "ReadOnly"

====
